---- MODULE Spec2Model ----
(***************************************************************************)
(* Chess-Analyzer: the game-error-detection pass (src/analyze.py).         *)
(*                                                                         *)
(* ChessAnalyzer.analyze_game walks the main line of one game, asks the    *)
(* engine for a score before and after every ply of the tracked player,    *)
(* and appends an error record when the mover's evaluation dropped.        *)
(*                                                                         *)
(* Abstractions                                                            *)
(*  - A game is its two header names and nPlies moves; move k of the main  *)
(*    line is the number k (move.uci() of the k-th move).                  *)
(*  - A board is the stack of moves pushed on it and the side to move.     *)
(*    board.push(move) does not check legality (python-chess documents     *)
(*    that the caller must pass a pseudo-legal move), so a push either     *)
(*    raises or appends the move and flips the turn, also when the same    *)
(*    move was pushed before.                                              *)
(*  - Scores are integers in centipawns from White's point of view.  The   *)
(*    code stores x / 100.0; division by 100.0 is correctly rounded, so    *)
(*    for integer x the comparisons x / 100.0 <= -1.5, -0.8, -0.3 decide   *)
(*    exactly as x <= -150, -80, -30.  The model keeps the centipawns.     *)
(*  - The batch scripts (src/improvement_suggestions.py,                   *)
(*    src/fix_analysis.py) and the SQLite cache (src/database.py) are      *)
(*    modelled in SpecBatch: a pass of analyze_game inside a worker task   *)
(*    is one step ending in one of its terminal states, save_analysis is   *)
(*    one step per SQL statement of its transaction.                       *)
(*  - SpecTwice runs analyze_game twice against a deterministic            *)
(*    evaluator; SpecEngine lets a caller use the engine methods of one    *)
(*    ChessAnalyzer in any order.                                          *)
(*  - SpecCache is the cache over time (src/database.py), SpecRoundTrip    *)
(*    saves and reads back the list analyze_game returned, SpecMain is the *)
(*    end of the sequential run (src/main.py) with SpecExplain the call of *)
(*    explain_errors_batch on its own (src/explain.py), SpecGameReport is  *)
(*    generate_game_report (src/report.py) and SpecFetch is                *)
(*    get_last_n_lost_games (src/fix_analysis.py).                         *)
(***************************************************************************)
EXTENDS Integers, Sequences, FiniteSets, TLC

\* ------------------------------------------------------------- bounds
MaxPlies == 3
MaxDelta == 200

\* ------------------------------------------------------------- inputs
HeaderNames == {"Alice", "Bob"}
Usernames == {"ALICE", "bob", "carol"}
Colors == {"White", "Black"}
\* What engine.analyse returns under 'score': <<>> when the key is absent
\* (None), <<cp>> for a score of cp centipawns from White's point of view.
None == <<>>
Scores == {-100, 50}
Infos == {None} \cup {<<s>> : s \in Scores}
DeltaRange == (0 - MaxDelta)..MaxDelta

VARIABLES
    white, black, username, firstTurn, nPlies,
    engine, pc, board, i, move_number, errors,
    is_player_white, is_player_black,
    fen_before, is_white_turn, san_move,
    eval_before_centipawns, eval_after_centipawns,
    result, retAt,
    calls, analysed, handled, visits,
    delta_in, tier,
    world, run, firstResult, firstRetAt,
    script, stockfish, lost_games,
    mainpc, next_game, games_to_analyze, cached_games,
    games_tbl, analysis_tbl, tx,
    tasks, procs, interrupted,
    games0, analysis0, commits,
    self_engine, started, ncalls,
    cache_now, row_stamp, last_saved,
    rt_pc, rt_rows, rt_got,
    mpc, all0, all_errors, adjust_errors, typed, max_errors_to_explain,
    ex_in, ex_max, service, explained_errors, report_content,
    gr_pc, blunders, explanations, sections, blunders_found,
    fx_pc, archives, fx_n, archive_urls, fx_lost_games, fx_returned

inputVars == <<white, black, username, firstTurn, nPlies>>
localVars == <<fen_before, is_white_turn, san_move,
               eval_before_centipawns, eval_after_centipawns>>
ghostVars == <<calls, analysed, handled, visits>>
classifyVars == <<delta_in, tier>>
runVars == <<world, run, firstResult, firstRetAt>>
batchInputs == <<script, stockfish, lost_games>>
mainVars == <<mainpc, next_game, games_to_analyze, cached_games>>
dbVars == <<games_tbl, analysis_tbl, tx>>
poolVars == <<tasks, procs, interrupted>>
batchGhost == <<games0, analysis0, commits>>
batchVars == <<batchInputs, mainVars, dbVars, poolVars, batchGhost>>
lifeVars == <<self_engine, started, ncalls>>
cacheVars == <<cache_now, row_stamp, last_saved>>
tripVars == <<rt_pc, rt_rows, rt_got>>
explainVars == <<mpc, all0, all_errors, adjust_errors, typed,
                 max_errors_to_explain, ex_in, ex_max, service,
                 explained_errors, report_content>>
gameReportVars == <<gr_pc, blunders, explanations, sections, blunders_found>>
fetchVars == <<fx_pc, archives, fx_n, archive_urls, fx_lost_games,
               fx_returned>>
restVars == <<cacheVars, tripVars, explainVars, gameReportVars, fetchVars>>
outerVars == <<runVars, batchVars, lifeVars, restVars>>
vars == <<white, black, username, firstTurn, nPlies,
          engine, pc, board, i, move_number, errors,
          is_player_white, is_player_black,
          fen_before, is_white_turn, san_move,
          eval_before_centipawns, eval_after_centipawns,
          result, retAt, calls, analysed, handled, visits, delta_in, tier,
          outerVars>>

\* ------------------------------------------------------------- thresholds
blunder_threshold == -150
mistake_threshold == -80
inaccuracy_threshold == -30

\* ------------------------------------------------------------- pure functions
\* str.lower() on the names the model uses.
Lower(s) ==
    CASE s = "Alice" -> "alice"
      [] s = "ALICE" -> "alice"
      [] s = "Bob"   -> "bob"
      [] OTHER       -> s

get_error_type_strict(eval_change) ==
    IF eval_change < blunder_threshold THEN "Blunder"
    ELSE IF eval_change < mistake_threshold THEN "Mistake"
    ELSE IF eval_change < inaccuracy_threshold THEN "Inaccuracy"
    ELSE "Good"

get_error_type(eval_change) ==
    IF eval_change <= blunder_threshold THEN "Blunder"
    ELSE IF eval_change <= mistake_threshold THEN "Mistake"
    ELSE IF eval_change <= inaccuracy_threshold THEN "Inaccuracy"
    ELSE "Good"

CentipawnsLost(score) == IF score = None THEN -10000 ELSE score[1]

\* info.get('score', None): None -> 0, else score.white().score(...)
Centipawns(score) == IF score = None THEN 0 ELSE score[1]

\* lines 160-165
EvalChange(whiteTurn, before, after) ==
    IF whiteTurn THEN after - before
    ELSE (0 - after) - (0 - before)

Flip(c) == IF c = "White" THEN "Black" ELSE "White"

\* board.push(move), when it does not raise
Push(b, m) == [stack |-> Append(b.stack, m), turn |-> Flip(b.turn)]

\* board.fen(): the position and the side to move
Fen(b) == <<b.stack, b.turn>>

\* game.mainline_moves(): move k is the number k
Mainline == [k \in 1..nPlies |-> k]

NoBoard == [stack |-> <<>>, turn |-> "White"]

\* ------------------------------------------------------------- environment
\* world describes what analyze_game runs against.  With stubbed = FALSE it
\* is the real engine and an arbitrary PGN text: every call may return any
\* score or raise, a push may raise, the engine may fail to start and the
\* text may fail to parse.  With stubbed = TRUE it is a deterministic
\* evaluator: the position with k moves pushed always gets scores[k + 1],
\* the engine starts, the moves of the parsed game can be pushed, and the
\* text parses iff parses.
RealWorld == [stubbed |-> FALSE, scores |-> <<>>, parses |-> TRUE]

\* engine.analyse(board, ...).get('score')
EngineOutcomes(b) ==
    IF world.stubbed THEN {world.scores[Len(b.stack) + 1]} ELSE Infos

\* engine.analyse raises (timeout, engine died)
EngineMayRaise == ~world.stubbed

\* board.push(move) returns (TRUE) or raises (FALSE)
PushOutcomes == IF world.stubbed THEN {TRUE} ELSE BOOLEAN

\* chess.engine.SimpleEngine.popen_uci succeeds (TRUE) or raises (FALSE)
EngineStarts == IF world.stubbed THEN {TRUE} ELSE BOOLEAN

\* chess.pgn.read_game yields a game (TRUE) or nothing (FALSE)
ParseOutcomes == IF world.stubbed THEN {world.parses} ELSE BOOLEAN

\* a ChessAnalyzer whose methods a caller has not called yet
LifeIdle ==
    /\ self_engine = 0
    /\ started = <<>>
    /\ ncalls = 0

\* the cache clock and the bookkeeping of the saves, unused
CacheIdle ==
    /\ cache_now = 0
    /\ row_stamp = <<>>
    /\ last_saved = <<>>

\* no list saved or read back yet
TripIdle ==
    /\ rt_pc = "idle"
    /\ rt_rows = <<>>
    /\ rt_got = <<>>

\* the sequential run has not reached its explanation step
ExplainIdle ==
    /\ mpc = "idle"
    /\ all0 = <<>>
    /\ all_errors = <<>>
    /\ adjust_errors = ""
    /\ typed = <<>>
    /\ max_errors_to_explain = 0
    /\ ex_in = <<>>
    /\ ex_max = 0
    /\ service = "unused"
    /\ explained_errors = <<>>
    /\ report_content = <<>>

\* generate_game_report has not been called
GameReportIdle ==
    /\ gr_pc = "idle"
    /\ blunders = <<>>
    /\ explanations = <<>>
    /\ sections = <<>>
    /\ blunders_found = 0

\* get_last_n_lost_games has not been called
FetchIdle ==
    /\ fx_pc = "idle"
    /\ archives = <<>>
    /\ fx_n = 0
    /\ archive_urls = <<>>
    /\ fx_lost_games = <<>>
    /\ fx_returned = <<>>

RestIdle ==
    /\ CacheIdle
    /\ TripIdle
    /\ ExplainIdle
    /\ GameReportIdle
    /\ FetchIdle

\* the variables of the callers of analyze_game, before any of them runs
OuterIdle ==
    /\ LifeIdle
    /\ RestIdle
    /\ run = 1
    /\ firstResult = <<>>
    /\ firstRetAt = "none"
    /\ script = "improve"
    /\ stockfish = TRUE
    /\ lost_games = <<>>
    /\ mainpc = "idle"
    /\ next_game = 1
    /\ games_to_analyze = <<>>
    /\ cached_games = <<>>
    /\ games_tbl = <<>>
    /\ analysis_tbl = <<>>
    /\ tx = [owner |-> 0, flag |-> "absent", rows |-> <<>>, ins |-> 0]
    /\ tasks = <<>>
    /\ procs = <<>>
    /\ interrupted = FALSE
    /\ games0 = <<>>
    /\ analysis0 = <<>>
    /\ commits = <<>>

\* ------------------------------------------------------------- initial state
\* A ChessAnalyzer right after __init__ (engine = None) and one game to
\* analyse for one username.
Init ==
    /\ white \in HeaderNames
    /\ black \in HeaderNames
    /\ username \in Usernames
    /\ firstTurn \in Colors
    /\ nPlies \in 0..MaxPlies
    /\ engine = "none"
    /\ pc = "idle"
    /\ board = NoBoard
    /\ i = 0
    /\ move_number = 0
    /\ errors = <<>>
    /\ is_player_white = FALSE
    /\ is_player_black = FALSE
    /\ fen_before = <<>>
    /\ is_white_turn = FALSE
    /\ san_move = <<>>
    /\ eval_before_centipawns = 0
    /\ eval_after_centipawns = 0
    /\ result = <<>>
    /\ retAt = "none"
    /\ calls = <<>>
    /\ analysed = <<>>
    /\ handled = <<>>
    /\ visits = <<>>
    /\ delta_in = 0
    /\ tier = "none"
    /\ world = RealWorld
    /\ OuterIdle

\* ------------------------------------------------------------- operations
\* initialize_engine(), called by the caller before analyze_game
InitializeEngine ==
    /\ pc = "idle"
    /\ engine = "none"
    /\ \E ok \in EngineStarts : engine' = IF ok THEN "live" ELSE "none"
    /\ UNCHANGED <<inputVars, pc, board, i, move_number, errors,
                   is_player_white, is_player_black, localVars,
                   result, retAt, ghostVars, classifyVars, outerVars>>

\* return [] at one of the early exits of analyze_game
ReturnEmpty(site) ==
    /\ pc' = "done"
    /\ result' = <<>>
    /\ retAt' = site
    /\ UNCHANGED <<inputVars, board, i, move_number, errors,
                   is_player_white, is_player_black, localVars,
                   ghostVars, classifyVars, outerVars>>

FreshErrorsKept(errs) == errs

\* line 120: errors = []
FreshErrors(errs) == <<>>

PlayerFoundAlways(u, w, b) == TRUE

\* line 112: username_lower in [white_player, black_player]
PlayerFound(u, w, b) == Lower(u) \in {Lower(w), Lower(b)}

\* analyze_game, lines 95-121: engine, parse, username check, set-up
AnalyzeStart ==
    /\ pc = "idle"
    /\ \E engineOk \in EngineStarts, parseOk \in ParseOutcomes :
        IF engine = "none" /\ ~engineOk
        THEN engine' = "none" /\ ReturnEmpty("engine")
        ELSE
          /\ engine' = "live"
          /\ IF ~parseOk
             THEN ReturnEmpty("parse")
             ELSE IF ~PlayerFound(username, white, black)
             THEN ReturnEmpty("username")
             ELSE
               /\ is_player_white' = (Lower(username) = Lower(white))
               /\ is_player_black' = (Lower(username) = Lower(black))
               /\ board' = [stack |-> <<>>, turn |-> firstTurn]
               /\ errors' = FreshErrors(errors)
               /\ move_number' = 1
               /\ i' = 1
               /\ pc' = "loop"
               /\ UNCHANGED <<inputVars, localVars, result, retAt,
                              ghostVars, classifyVars, outerVars>>

\* line 131
should_analyze(b) ==
    \/ (b.turn = "White" /\ is_player_white)
    \/ (b.turn # "White" /\ is_player_black)

LoopExhaustedEarly(k) == k >= nPlies

\* line 124: the iterator over game.mainline_moves() has no k-th move
LoopExhausted(k) == k > nPlies

\* the for loop is exhausted: return errors (line 201)
LoopEnd ==
    /\ pc = "loop"
    /\ LoopExhausted(i)
    /\ pc' = "done"
    /\ result' = errors
    /\ retAt' = "loop_end"
    /\ UNCHANGED <<inputVars, engine, board, i, move_number, errors,
                   is_player_white, is_player_black, localVars,
                   ghostVars, classifyVars, outerVars>>

\* a ply that is not analysed: lines 127-131, 187, 189
SkipPly ==
    /\ pc = "loop"
    /\ ~LoopExhausted(i)
    /\ ~should_analyze(board)
    /\ visits' = Append(visits, i)
    /\ fen_before' = Fen(board)
    /\ is_white_turn' = (board.turn = "White")
    /\ \E pushOk \in PushOutcomes :
        IF pushOk
        THEN /\ board' = Push(board, Mainline[i])
             /\ move_number' = move_number + 1
             /\ i' = i + 1
             /\ pc' = "loop"
             /\ handled' = handled
        ELSE /\ pc' = "handler"
             /\ handled' = Append(handled, [ply |-> i, at |-> "skip"])
             /\ UNCHANGED <<board, move_number, i>>
    /\ UNCHANGED <<inputVars, engine, errors, is_player_white,
                   is_player_black, san_move, eval_before_centipawns,
                   eval_after_centipawns, result, retAt, calls, analysed,
                   classifyVars, outerVars>>

\* The board holds exactly the moves of the game before move k.  The PGN
\* reader yields legal moves only, so on such a board board.san(move) succeeds;
\* on any other board the move may be illegal and san may raise ValueError.
Intact(b, k) == b.stack = SubSeq(Mainline, 1, k - 1)

\* lines 135-138: board.san(move), or move.uci() when san raises
SanOutcomes(b, k) == IF Intact(b, k) THEN {TRUE} ELSE BOOLEAN

\* a ply that is analysed: lines 127-138 (fen, turn, SAN or its UCI fallback)
BeginPly ==
    /\ pc = "loop"
    /\ ~LoopExhausted(i)
    /\ should_analyze(board)
    /\ visits' = Append(visits, i)
    /\ fen_before' = Fen(board)
    /\ is_white_turn' = (board.turn = "White")
    /\ \E sanOk \in SanOutcomes(board, i) :
        san_move' = <<IF sanOk THEN "san" ELSE "uci", Mainline[i]>>
    /\ pc' = "evalBefore"
    /\ UNCHANGED <<inputVars, engine, board, i, move_number, errors,
                   is_player_white, is_player_black,
                   eval_before_centipawns, eval_after_centipawns,
                   result, retAt, calls, analysed, handled, classifyVars, outerVars>>

\* lines 141-146: engine.analyse on the position before the move
EvalBefore ==
    /\ pc = "evalBefore"
    /\ calls' = Append(calls, [ply |-> i, phase |-> "before", fen |-> Fen(board)])
    /\ \/ \E info \in EngineOutcomes(board) :
            /\ eval_before_centipawns' = Centipawns(info)
            /\ analysed' = Append(analysed,
                   [ply |-> i, before |-> info, after |-> None,
                    whiteTurn |-> is_white_turn, change |-> 0,
                    done |-> FALSE])
            /\ pc' = "push"
            /\ handled' = handled
       \/ /\ EngineMayRaise
          /\ pc' = "handler"
          /\ handled' = Append(handled, [ply |-> i, at |-> "before"])
          /\ UNCHANGED <<eval_before_centipawns, analysed>>
    /\ UNCHANGED <<inputVars, engine, board, i, move_number, errors,
                   is_player_white, is_player_black, fen_before,
                   is_white_turn, san_move, eval_after_centipawns,
                   result, retAt, visits, classifyVars, outerVars>>

\* line 149: board.push(move)
PushMove ==
    /\ pc = "push"
    /\ \E pushOk \in PushOutcomes :
        IF pushOk
        THEN /\ board' = Push(board, Mainline[i])
             /\ pc' = "evalAfter"
             /\ handled' = handled
        ELSE /\ pc' = "handler"
             /\ handled' = Append(handled, [ply |-> i, at |-> "push"])
             /\ board' = board
    /\ UNCHANGED <<inputVars, engine, i, move_number, errors,
                   is_player_white, is_player_black, localVars,
                   result, retAt, calls, analysed, visits, classifyVars, outerVars>>

\* lines 173-183: the error dictionary (evaluations kept in centipawns)
ErrorRecord(number, m, fen, before, after, change, san, playerWhite) ==
    [move_number |-> number,
     move        |-> m,
     fen_before  |-> fen,
     eval_before |-> before,
     eval_after  |-> after,
     eval_change |-> change,
     san_move    |-> san,
     error_type  |-> get_error_type(change),
     player      |-> IF playerWhite THEN "White" ELSE "Black"]

IsErrorLoose(eval_change) == eval_change <= 0

\* line 170: is this delta an error?
IsError(eval_change) == eval_change <= inaccuracy_threshold

\* lines 160-184: delta, classification, record
Classified(errs, after) ==
    LET change == EvalChange(is_white_turn, eval_before_centipawns, after)
    IN IF IsError(change)
       THEN Append(errs, ErrorRecord(move_number, Mainline[i], fen_before,
                                     eval_before_centipawns, after, change,
                                     san_move, is_player_white))
       ELSE errs

\* lines 152-189: engine.analyse on the position after the move, then the
\* delta, the record and move_number += 1
EvalAfter ==
    /\ pc = "evalAfter"
    /\ calls' = Append(calls, [ply |-> i, phase |-> "after", fen |-> Fen(board)])
    /\ \/ \E info \in EngineOutcomes(board) :
            /\ eval_after_centipawns' = Centipawns(info)
            /\ errors' = Classified(errors, Centipawns(info))
            /\ analysed' = [analysed EXCEPT ![Len(analysed)] =
                               [@ EXCEPT !.after = info, !.done = TRUE,
                                         !.change = EvalChange(is_white_turn,
                                             eval_before_centipawns,
                                             Centipawns(info))]]
            /\ move_number' = move_number + 1
            /\ i' = i + 1
            /\ pc' = "loop"
            /\ handled' = handled
       \/ /\ EngineMayRaise
          /\ pc' = "handler"
          /\ handled' = Append(handled, [ply |-> i, at |-> "after"])
          /\ UNCHANGED <<eval_after_centipawns, errors, analysed,
                         move_number, i>>
    /\ UNCHANGED <<inputVars, engine, board, is_player_white,
                   is_player_black, fen_before, is_white_turn, san_move,
                   eval_before_centipawns, result, retAt, visits,
                   classifyVars, outerVars>>

HandlerNumberSame(n) == n

\* the handler's own counter update (line 197)
HandlerNumber(n) == n + 1

BreakResultEmpty(errs) == <<>>

\* lines 199, 201: break leaves the loop and errors is returned
BreakResult(errs) == errs

\* lines 191-199: the per-ply handler pushes the move and goes on, or breaks
\* out of the loop, after which line 201 returns errors
Handler ==
    /\ pc = "handler"
    /\ \E pushOk \in PushOutcomes :
        IF pushOk
        THEN /\ board' = Push(board, Mainline[i])
             /\ move_number' = HandlerNumber(move_number)
             /\ i' = i + 1
             /\ pc' = "loop"
             /\ UNCHANGED <<result, retAt>>
        ELSE /\ pc' = "done"
             /\ result' = BreakResult(errors)
             /\ retAt' = "break"
             /\ UNCHANGED <<board, move_number, i>>
    /\ UNCHANGED <<inputVars, engine, errors, is_player_white,
                   is_player_black, localVars, ghostVars, classifyVars, outerVars>>

Next ==
    \/ InitializeEngine
    \/ AnalyzeStart
    \/ LoopEnd
    \/ SkipPly
    \/ BeginPly
    \/ EvalBefore
    \/ PushMove
    \/ EvalAfter
    \/ Handler

Spec == Init /\ [][Next]_vars

\* ------------------------------------------------------------- classifier
\* get_error_type applied to one delta drawn from DeltaRange (centipawns);
\* the analysis variables stay in their initial state.
InitClassify ==
    /\ white = "Alice"
    /\ black = "Bob"
    /\ username = "ALICE"
    /\ firstTurn = "White"
    /\ nPlies = 0
    /\ engine = "none"
    /\ pc = "idle"
    /\ board = NoBoard
    /\ i = 0
    /\ move_number = 0
    /\ errors = <<>>
    /\ is_player_white = FALSE
    /\ is_player_black = FALSE
    /\ fen_before = <<>>
    /\ is_white_turn = FALSE
    /\ san_move = <<>>
    /\ eval_before_centipawns = 0
    /\ eval_after_centipawns = 0
    /\ result = <<>>
    /\ retAt = "none"
    /\ calls = <<>>
    /\ analysed = <<>>
    /\ handled = <<>>
    /\ visits = <<>>
    /\ delta_in \in DeltaRange
    /\ tier = "none"
    /\ world = RealWorld
    /\ OuterIdle

Classify ==
    /\ tier = "none"
    /\ tier' = get_error_type(delta_in)
    /\ UNCHANGED <<inputVars, engine, pc, board, i, move_number, errors,
                   is_player_white, is_player_black, localVars,
                   result, retAt, ghostVars, delta_in, outerVars>>

NextClassify == Classify

SpecClassify == InitClassify /\ [][NextClassify]_vars

\* ------------------------------------------------------------- repeated run
\* analyze_game called twice with the same text and username on one
\* analyzer, against a deterministic evaluator (world.stubbed).

\* the deterministic evaluators: a score (or no score) for each position
\* of the game, identified by the number of moves pushed
StubWorlds ==
    {[stubbed |-> TRUE, scores |-> s, parses |-> p] :
        s \in [1..(MaxPlies + 1) -> Infos], p \in BOOLEAN}

InitTwice ==
    /\ white \in HeaderNames
    /\ black \in HeaderNames
    /\ username \in Usernames
    /\ firstTurn \in Colors
    /\ nPlies \in 0..MaxPlies
    /\ engine = "none"
    /\ pc = "idle"
    /\ board = NoBoard
    /\ i = 0
    /\ move_number = 0
    /\ errors = <<>>
    /\ is_player_white = FALSE
    /\ is_player_black = FALSE
    /\ fen_before = <<>>
    /\ is_white_turn = FALSE
    /\ san_move = <<>>
    /\ eval_before_centipawns = 0
    /\ eval_after_centipawns = 0
    /\ result = <<>>
    /\ retAt = "none"
    /\ calls = <<>>
    /\ analysed = <<>>
    /\ handled = <<>>
    /\ visits = <<>>
    /\ delta_in = 0
    /\ tier = "none"
    /\ world \in StubWorlds
    /\ OuterIdle

\* the caller keeps the list the first call returned and calls
\* analyze_game(pgn_text, username) again on the same analyzer: self.engine
\* stays as the first call left it, the observation logs start afresh
AnalyzeAgain ==
    /\ pc = "done"
    /\ run = 1
    /\ run' = 2
    /\ firstResult' = result
    /\ firstRetAt' = retAt
    /\ pc' = "idle"
    /\ result' = <<>>
    /\ retAt' = "none"
    /\ calls' = <<>>
    /\ analysed' = <<>>
    /\ handled' = <<>>
    /\ visits' = <<>>
    /\ UNCHANGED <<inputVars, engine, board, i, move_number, errors,
                   is_player_white, is_player_black, localVars,
                   classifyVars, world, batchVars, lifeVars,
                   restVars>>

\* the handler of lines 191-199 is not among the steps: a deterministic
\* evaluator returns, and the moves of a parsed game can be pushed
NextTwice ==
    \/ InitializeEngine
    \/ AnalyzeStart
    \/ LoopEnd
    \/ SkipPly
    \/ BeginPly
    \/ EvalBefore
    \/ PushMove
    \/ EvalAfter
    \/ AnalyzeAgain

SpecTwice == InitTwice /\ [][NextTwice]_vars

\* ------------------------------------------------------------- batch
\* improvement_suggestions.main and fix_analysis.main: the lost games are
\* registered in the SQLite cache (database.py), the games to analyse are
\* handed to a ProcessPoolExecutor, and each task (analyze_game_worker)
\* analyses one game with an analyzer of its own and saves the result.
\* The pass of analyze_game inside a task is one step whose outcome is one
\* of its terminal states (complete, aborted, halted early); save_analysis
\* is one step per SQL statement on the task's own connection.

MaxGames == 2

\* A game of the API: head stands for the first 100 characters of its PGN
\* text (the Event, Site, Date, Round and White tags), tail for the rest
\* (the other tags and the moves).  Games with one head are different games.
Catalogue ==
    << [head |-> "a", tail |-> 1],
       [head |-> "a", tail |-> 2],
       [head |-> "b", tail |-> 1] >>
Games == {Catalogue[c] : c \in DOMAIN Catalogue}

\* generate_game_id: md5 of pgn[:100] + username; the username is the same
\* for a whole batch, md5 is taken as injective
generate_game_id(game) == game.head

GameIds == {generate_game_id(g) : g \in Games}

\* the lists get_lost_games_from_year / get_last_n_lost_games can return:
\* up to MaxGames different games, in the order of the catalogue
LostGameLists ==
    {[x \in DOMAIN c |-> Catalogue[c[x]]] :
        c \in {d \in UNION {[1..m -> DOMAIN Catalogue] : m \in 0..MaxGames} :
                  \A x, y \in DOMAIN d : x < y => d[x] < d[y]}}

\* an Error Record of a game, reduced to the game and its move number, and
\* the list a complete pass over the game returns
ErrorRow(game, k) == <<game.tail, k>>
FullList(game) == <<ErrorRow(game, 1), ErrorRow(game, 2)>>

\* what analyze_game can return for a game when the engine runs: the full
\* list after a complete pass, [] after an abort (unparsable text, username
\* not found), the records accumulated so far after the break of the handler
AnalysisOutcomes(game) ==
    { [kind |-> "complete", errors |-> FullList(game)],
      [kind |-> "aborted",  errors |-> <<>>],
      [kind |-> "halted",   errors |-> <<ErrorRow(game, 1)>>] }

\* rows an earlier batch saved for an entry
PriorRows == <<<<0, 1>>>>

NoTx == [owner |-> 0, flag |-> "absent", rows |-> <<>>, ins |-> 0]

\* the analyzer of a task sends its requests to its own self.engine
TaskEngineShared(pid) == IF pid = 0 THEN 0 ELSE 1

TaskEngine(pid) == pid

\* save_analysis, line 141: DELETE FROM analysis WHERE game_id = ?
DeleteRowsKept(rows) == rows

DeleteRows(rows) == <<>>

\* the values every variable of analyze_game keeps while a batch runs
AnalyzerIdle ==
    /\ white = "Alice"
    /\ black = "Bob"
    /\ username = "ALICE"
    /\ firstTurn = "White"
    /\ nPlies = 0
    /\ engine = "none"
    /\ pc = "idle"
    /\ board = NoBoard
    /\ i = 0
    /\ move_number = 0
    /\ errors = <<>>
    /\ is_player_white = FALSE
    /\ is_player_black = FALSE
    /\ fen_before = <<>>
    /\ is_white_turn = FALSE
    /\ san_move = <<>>
    /\ eval_before_centipawns = 0
    /\ eval_after_centipawns = 0
    /\ result = <<>>
    /\ retAt = "none"
    /\ calls = <<>>
    /\ analysed = <<>>
    /\ handled = <<>>
    /\ visits = <<>>
    /\ delta_in = 0
    /\ tier = "none"
    /\ world = RealWorld
    /\ run = 1
    /\ firstResult = <<>>
    /\ firstRetAt = "none"

analyzerVars == <<inputVars, engine, pc, board, i, move_number, errors,
                  is_player_white, is_player_black, localVars,
                  result, retAt, ghostVars, classifyVars, runVars>>

\* The cache as earlier batches left it: an entry is absent, registered
\* (analyzed = FALSE, no rows) or analyzed with the rows of its save.
InitBatch ==
    /\ AnalyzerIdle
    /\ LifeIdle
    /\ RestIdle
    /\ script \in {"improve", "fix"}
    /\ stockfish \in BOOLEAN
    /\ lost_games \in LostGameLists
    /\ mainpc = IF script = "fix" THEN "clear" ELSE "loop"
    /\ next_game = 1
    /\ games_to_analyze = <<>>
    /\ cached_games = <<>>
    /\ games_tbl \in [GameIds -> {"absent", "new", "analyzed"}]
    /\ analysis_tbl =
           [id \in GameIds |->
               IF games_tbl[id] = "analyzed" THEN PriorRows ELSE <<>>]
    /\ tx = NoTx
    /\ tasks = <<>>
    /\ procs = <<>>
    /\ interrupted = FALSE
    /\ games0 = games_tbl
    /\ analysis0 = analysis_tbl
    /\ commits = [id \in GameIds |-> <<>>]

\* fix_analysis.main, lines 90-97: one transaction of the main process
ClearAll ==
    /\ mainpc = "clear"
    /\ analysis_tbl' = [id \in GameIds |-> <<>>]
    /\ games_tbl' = [id \in GameIds |->
                        IF games_tbl[id] = "analyzed" THEN "new"
                        ELSE games_tbl[id]]
    /\ mainpc' = "loop"
    /\ UNCHANGED <<analyzerVars, lifeVars, restVars,
                   batchInputs, next_game, games_to_analyze,
                   cached_games, tx, poolVars, batchGhost>>

\* add_game: INSERT unless game_exists
add_game(tbl, id) ==
    [tbl EXCEPT ![id] = IF @ = "absent" THEN "new" ELSE @]

game_analyzed_never(tbl, id) == FALSE

\* game_analyzed: the analyzed column of the row, FALSE without a row
game_analyzed(tbl, id) == tbl[id] = "analyzed"

\* one turn of the loop over lost_games (improvement_suggestions 107-119,
\* fix_analysis 109-116): add_game, then either the cached records are read
\* or the game is queued; fix_analysis queues every game
LoopStep ==
    /\ mainpc = "loop"
    /\ next_game <= Len(lost_games)
    /\ LET game == lost_games[next_game]
           game_id == generate_game_id(game)
           tbl == add_game(games_tbl, game_id)
       IN  /\ games_tbl' = tbl
           /\ IF script = "improve" /\ game_analyzed(tbl, game_id)
              THEN /\ cached_games' =
                          Append(cached_games, analysis_tbl[game_id])
                   /\ UNCHANGED games_to_analyze
              ELSE /\ games_to_analyze' =
                          Append(games_to_analyze,
                                 [game |-> game, game_id |-> game_id])
                   /\ UNCHANGED cached_games
    /\ next_game' = next_game + 1
    /\ UNCHANGED <<analyzerVars, lifeVars, restVars,
                   batchInputs, mainpc, analysis_tbl, tx,
                   poolVars, batchGhost>>

\* a task as executor.submit queues it
NewTask(arg) ==
    [game |-> arg.game, game_id |-> arg.game_id, st |-> "queued",
     kind |-> "none", errors |-> <<>>, pid |-> 0,
     afterInt |-> FALSE, atInt |-> FALSE]

\* after the loop: without games to analyse (or, in fix_analysis, without
\* lost games) main goes on without a pool; else every game of
\* games_to_analyze is submitted
StartPool ==
    /\ mainpc = "loop"
    /\ next_game > Len(lost_games)
    /\ IF games_to_analyze = <<>>
       THEN /\ mainpc' = "done"
            /\ UNCHANGED tasks
       ELSE /\ mainpc' = "pool"
            /\ tasks' = [t \in DOMAIN games_to_analyze |->
                            NewTask(games_to_analyze[t])]
    /\ UNCHANGED <<analyzerVars, lifeVars, restVars,
                   batchInputs, next_game, games_to_analyze,
                   cached_games, dbVars, procs, interrupted, batchGhost>>

InFlight(t) == tasks[t].st \in {"ready", "analysed", "deleted", "updated"}
Ended(t) == tasks[t].st \in {"done", "failed", "killed"}

\* a pool process takes a queued task: analyzer = ChessAnalyzer();
\* analyzer.initialize_engine(), whose result is dropped (worker line 21).
\* shutdown(wait=True) cancels nothing, so this does not look at interrupted.
StartTask(t) ==
    /\ tasks[t].st = "queued"
    /\ IF stockfish
       THEN /\ procs' = Append(procs, [owner |-> t, live |-> TRUE,
                                       quits |-> 0, reqs |-> {}])
            /\ tasks' = [tasks EXCEPT ![t].st = "ready",
                                      ![t].pid = Len(procs) + 1,
                                      ![t].afterInt = interrupted]
       ELSE /\ tasks' = [tasks EXCEPT ![t].st = "ready",
                                      ![t].afterInt = interrupted]
            /\ UNCHANGED procs
    /\ UNCHANGED <<analyzerVars, lifeVars, restVars,
                   batchInputs, mainVars, dbVars,
                   interrupted, batchGhost>>

\* errors = analyzer.analyze_game(pgn, username).  Without an engine the
\* call tries initialize_engine again and returns [] (analyze.py 95-97).
Analyse(t) ==
    /\ tasks[t].st = "ready"
    /\ IF tasks[t].pid = 0
       THEN /\ tasks' = [tasks EXCEPT ![t].st = "analysed",
                                      ![t].kind = "aborted",
                                      ![t].errors = <<>>]
            /\ UNCHANGED procs
       ELSE \E o \in AnalysisOutcomes(tasks[t].game) :
            /\ tasks' = [tasks EXCEPT ![t].st = "analysed",
                                      ![t].kind = o.kind,
                                      ![t].errors = o.errors]
            /\ procs' = [procs EXCEPT ![TaskEngine(tasks[t].pid)].reqs =
                                          @ \cup {t}]
    /\ UNCHANGED <<analyzerVars, lifeVars, restVars,
                   batchInputs, mainVars, dbVars,
                   interrupted, batchGhost>>

AfterFailurePartial(committed, written) == written

\* an exception inside "with sqlite3.connect(...) as conn" rolls the
\* transaction back: the rows that were committed before it stay
AfterFailure(committed, written) == committed

\* the analysis table after the transaction that is open (if one is) ended
\* in an exception
RolledBack ==
    IF tx.owner = 0 THEN analysis_tbl
    ELSE [analysis_tbl EXCEPT ![tasks[tx.owner].game_id] =
                                  AfterFailure(@, tx.rows)]

\* finally: analyzer.close_engine()
Quit(ps, pid) ==
    IF pid = 0 THEN ps
    ELSE [ps EXCEPT ![pid].live = FALSE, ![pid].quits = @ + 1]

\* save_analysis, up to line 141: the connection opens, the DELETE starts
\* the write transaction (SQLite lets one connection write at a time)
SaveBegin(t) ==
    /\ tasks[t].st = "analysed"
    /\ tx.owner = 0
    /\ tx' = [owner |-> t, flag |-> games_tbl[tasks[t].game_id],
              rows |-> DeleteRows(analysis_tbl[tasks[t].game_id]),
              ins |-> 0]
    /\ tasks' = [tasks EXCEPT ![t].st = "deleted"]
    /\ UNCHANGED <<analyzerVars, lifeVars, restVars,
                   batchInputs, mainVars, games_tbl,
                   analysis_tbl, procs, interrupted, batchGhost>>

\* one INSERT of the loop of lines 144-160
SaveInsert(t) ==
    /\ tasks[t].st = "deleted"
    /\ tx.owner = t
    /\ tx.ins < Len(tasks[t].errors)
    /\ tx' = [tx EXCEPT !.rows = Append(@, tasks[t].errors[tx.ins + 1]),
                        !.ins = @ + 1]
    /\ UNCHANGED <<analyzerVars, lifeVars, restVars,
                   batchInputs, mainVars, games_tbl,
                   analysis_tbl, poolVars, batchGhost>>

\* line 163: UPDATE games SET analyzed = TRUE
SaveUpdate(t) ==
    /\ tasks[t].st = "deleted"
    /\ tx.owner = t
    /\ tx.ins = Len(tasks[t].errors)
    /\ tx' = [tx EXCEPT !.flag = "analyzed"]
    /\ tasks' = [tasks EXCEPT ![t].st = "updated"]
    /\ UNCHANGED <<analyzerVars, lifeVars, restVars,
                   batchInputs, mainVars, games_tbl,
                   analysis_tbl, procs, interrupted, batchGhost>>

\* what main does with a future that ended: a result is collected, an
\* exception re-raised by future.result() ends main (it leaves the with
\* block, which waits for the tasks that remain)
MainAfter(ok) ==
    IF mainpc = "pool" /\ ~ok THEN "crashed" ELSE mainpc

\* line 164 and the end of the with block: commit; then the worker returns
\* and its finally closes the engine
SaveCommit(t) ==
    /\ tasks[t].st = "updated"
    /\ tx.owner = t
    /\ games_tbl' = [games_tbl EXCEPT ![tasks[t].game_id] = tx.flag]
    /\ analysis_tbl' = [analysis_tbl EXCEPT ![tasks[t].game_id] = tx.rows]
    /\ tx' = NoTx
    /\ commits' = [commits EXCEPT ![tasks[t].game_id] = Append(@, t)]
    /\ tasks' = [tasks EXCEPT ![t].st = "done"]
    /\ procs' = Quit(procs, tasks[t].pid)
    /\ mainpc' = MainAfter(TRUE)
    /\ UNCHANGED <<analyzerVars, lifeVars, restVars,
                   batchInputs, next_game, games_to_analyze,
                   cached_games, interrupted, games0, analysis0>>

\* a statement of save_analysis raises (sqlite3.OperationalError: database
\* is locked while another connection writes; an I/O error later): the
\* connection's context manager rolls back, the worker's finally closes the
\* engine, the exception reaches main through future.result()
SaveFail(t) ==
    /\ \/ tasks[t].st = "analysed" /\ tx.owner \notin {0, t}
       \/ tasks[t].st \in {"deleted", "updated"} /\ tx.owner = t
    /\ tx' = IF tx.owner = t THEN NoTx ELSE tx
    /\ analysis_tbl' = IF tx.owner = t THEN RolledBack ELSE analysis_tbl
    /\ tasks' = [tasks EXCEPT ![t].st = "failed"]
    /\ procs' = Quit(procs, tasks[t].pid)
    /\ mainpc' = MainAfter(FALSE)
    /\ UNCHANGED <<analyzerVars, lifeVars, restVars,
                   batchInputs, next_game, games_to_analyze,
                   cached_games, games_tbl, interrupted, batchGhost>>

\* the tasks that end under KeyboardInterrupt close their engines (finally)
RECURSIVE QuitAll(_, _, _)
QuitAll(ps, ts, t) ==
    IF t = 0 THEN ps
    ELSE QuitAll(IF ts[t].st \in {"ready", "analysed", "deleted", "updated"}
                 THEN Quit(ps, ts[t].pid) ELSE ps, ts, t - 1)

\* Ctrl-C while the pool runs.  main gets KeyboardInterrupt inside the with
\* block, which has no handler: the block's exit waits for every task,
\* queued ones included.  group tells whether the signal reached the pool
\* processes too (terminal Ctrl-C) or only main (kill -INT): in a pool
\* process it is raised inside the running task, where except Exception
\* does not catch it.
Interrupt ==
    /\ mainpc = "pool"
    /\ ~interrupted
    /\ interrupted' = TRUE
    /\ mainpc' = "interrupted"
    /\ \E group \in BOOLEAN :
          IF group
          THEN /\ tasks' = [t \in DOMAIN tasks |->
                               IF InFlight(t)
                               THEN [tasks[t] EXCEPT !.st = "killed",
                                                     !.atInt = TRUE]
                               ELSE tasks[t]]
               /\ procs' = QuitAll(procs, tasks, Len(tasks))
               /\ tx' = NoTx
               /\ analysis_tbl' = RolledBack
          ELSE /\ tasks' = [t \in DOMAIN tasks |->
                               IF InFlight(t)
                               THEN [tasks[t] EXCEPT !.atInt = TRUE]
                               ELSE tasks[t]]
               /\ UNCHANGED <<procs, tx, analysis_tbl>>
    /\ UNCHANGED <<analyzerVars, lifeVars, restVars,
                   batchInputs, next_game, games_to_analyze,
                   cached_games, games_tbl, batchGhost>>

NextBatch ==
    \/ ClearAll
    \/ LoopStep
    \/ StartPool
    \/ \E t \in DOMAIN tasks : StartTask(t)
    \/ \E t \in DOMAIN tasks : Analyse(t)
    \/ \E t \in DOMAIN tasks : SaveBegin(t)
    \/ \E t \in DOMAIN tasks : SaveInsert(t)
    \/ \E t \in DOMAIN tasks : SaveUpdate(t)
    \/ \E t \in DOMAIN tasks : SaveCommit(t)
    \/ \E t \in DOMAIN tasks : SaveFail(t)
    \/ Interrupt

SpecBatch == InitBatch /\ [][NextBatch]_vars

\* ------------------------------------------------------------- engine lifecycle
\* One ChessAnalyzer and a caller that calls initialize_engine,
\* analyze_game, get_best_move, get_position_evaluation and close_engine
\* in any order, up to MaxCalls calls.  self_engine is self.engine (0 for
\* None, else the number of the process the handle refers to); started
\* lists the evaluator processes the analyzer has started.

MaxCalls == 4

\* a process as popen_uci starts it: live, never asked to quit, no request
\* served, and no request made through its handle after the quit
NewProc == [live |-> TRUE, quits |-> 0, reqs |-> 0, late |-> FALSE]

InitEngine ==
    /\ AnalyzerIdle
    /\ OuterIdle

\* initialize_engine (lines 28-41): a start that succeeds overwrites
\* self.engine, whatever it held; a failed start leaves it as it was
initialize_engine(handle, ps, ok) ==
    IF ok THEN [handle |-> Len(ps) + 1, ps |-> Append(ps, NewProc)]
    ELSE [handle |-> handle, ps |-> ps]

\* "if not self.engine: if not self.initialize_engine(): return" at the head
\* of analyze_game, get_best_move and get_position_evaluation
EnsureEngine(handle, ps, ok) ==
    IF handle # 0 THEN [handle |-> handle, ps |-> ps]
    ELSE initialize_engine(handle, ps, ok)

\* k requests through the handle (self.engine.analyse, self.engine.play).
\* A live process serves them; on a process that was quit the first call
\* raises and the method's except swallows it.
Request(handle, ps, k) ==
    IF handle = 0 \/ k = 0 THEN ps
    ELSE IF ps[handle].live THEN [ps EXCEPT ![handle].reqs = @ + k]
    ELSE [ps EXCEPT ![handle].late = TRUE]

InitializeEngineCall ==
    /\ ncalls < MaxCalls
    /\ ncalls' = ncalls + 1
    /\ \E ok \in BOOLEAN :
          LET e == initialize_engine(self_engine, started, ok)
          IN  /\ self_engine' = e.handle
              /\ started' = e.ps
    /\ UNCHANGED <<analyzerVars, restVars, batchVars>>

\* analyze_game (lines 95-97, 137, 152): the engine is ensured; a game
\* that aborts or has no ply of the player makes no request, a ply of the
\* player makes two
AnalyzeGameCall ==
    /\ ncalls < MaxCalls
    /\ ncalls' = ncalls + 1
    /\ \E ok \in BOOLEAN, k \in {0, 2} :
          LET e == EnsureEngine(self_engine, started, ok)
          IN  /\ self_engine' = e.handle
              /\ started' = Request(e.handle, e.ps, k)
    /\ UNCHANGED <<analyzerVars, restVars, batchVars>>

\* get_best_move (lines 218-228): one engine.play, none for a FEN that
\* chess.Board rejects
GetBestMove ==
    /\ ncalls < MaxCalls
    /\ ncalls' = ncalls + 1
    /\ \E ok \in BOOLEAN, k \in {0, 1} :
          LET e == EnsureEngine(self_engine, started, ok)
          IN  /\ self_engine' = e.handle
              /\ started' = Request(e.handle, e.ps, k)
    /\ UNCHANGED <<analyzerVars, restVars, batchVars>>

\* get_position_evaluation (lines 241-254): one engine.analyse, none for a
\* FEN that chess.Board rejects
GetPositionEvaluation ==
    /\ ncalls < MaxCalls
    /\ ncalls' = ncalls + 1
    /\ \E ok \in BOOLEAN, k \in {0, 1} :
          LET e == EnsureEngine(self_engine, started, ok)
          IN  /\ self_engine' = e.handle
              /\ started' = Request(e.handle, e.ps, k)
    /\ UNCHANGED <<analyzerVars, restVars, batchVars>>

\* close_engine (lines 43-46): quit through the handle, which is kept
CloseEngine ==
    /\ ncalls < MaxCalls
    /\ ncalls' = ncalls + 1
    /\ started' = IF self_engine = 0 THEN started
                  ELSE [started EXCEPT ![self_engine].live = FALSE,
                                       ![self_engine].quits = @ + 1]
    /\ UNCHANGED <<analyzerVars, restVars, batchVars, self_engine>>

NextEngine ==
    \/ InitializeEngineCall
    \/ AnalyzeGameCall
    \/ GetBestMove
    \/ GetPositionEvaluation
    \/ CloseEngine

SpecEngine == InitEngine /\ [][NextEngine]_vars

\* ------------------------------------------------------------- cache over time
\* The cache under any sequence of add_game, save_analysis, clear_old_data
\* and the bulk invalidation of fix_analysis, one call at a time, with days
\* passing between calls.  cache_now is the day datetime('now') shows,
\* row_stamp[id] the date_analyzed of the rows of an entry (CURRENT_TIMESTAMP
\* of their inserts), last_saved[id] the list of the last save_analysis call
\* for the entry (in a one-element sequence; <<>> before the first save).

MaxTicks == 3

\* days that pass in one step of the clock
TickDays == 15

\* clear_old_data(days=30), called as db.clear_old_data(30)
keep_days == 30

InitCache ==
    /\ AnalyzerIdle
    /\ LifeIdle
    /\ script = "improve"
    /\ stockfish = TRUE
    /\ lost_games = <<>>
    /\ mainpc = "idle"
    /\ next_game = 1
    /\ games_to_analyze = <<>>
    /\ cached_games = <<>>
    /\ tx = NoTx
    /\ tasks = <<>>
    /\ procs = <<>>
    /\ interrupted = FALSE
    /\ games0 = <<>>
    /\ analysis0 = <<>>
    /\ commits = <<>>
    /\ games_tbl = [id \in GameIds |-> "absent"]
    /\ analysis_tbl = [id \in GameIds |-> <<>>]
    /\ cache_now = 0
    /\ row_stamp = [id \in GameIds |-> 0]
    /\ last_saved = [id \in GameIds |-> <<>>]
    /\ TripIdle
    /\ ExplainIdle
    /\ GameReportIdle
    /\ FetchIdle

cacheFrame == <<analyzerVars, lifeVars, batchInputs, mainVars, tx, poolVars,
                batchGhost, tripVars, explainVars, gameReportVars, fetchVars>>

\* time passes
Tick ==
    /\ cache_now < MaxTicks * TickDays
    /\ cache_now' = cache_now + TickDays
    /\ UNCHANGED <<cacheFrame, games_tbl, analysis_tbl, row_stamp, last_saved>>

\* add_game(game, username)
AddGame ==
    /\ \E game \in Games :
          games_tbl' = add_game(games_tbl, generate_game_id(game))
    /\ games_tbl' # games_tbl
    /\ UNCHANGED <<cacheFrame, analysis_tbl, cacheVars>>

\* UPDATE games SET analyzed = TRUE WHERE game_id = ?: no row, no change
MarkAnalyzed(tbl, id) ==
    [tbl EXCEPT ![id] = IF @ = "absent" THEN @ ELSE "analyzed"]

\* save_analysis(game_id, errors), the whole transaction
SaveAnalysis ==
    /\ \E game \in Games :
       \E o \in AnalysisOutcomes(game) :
          LET id == generate_game_id(game)
          IN  /\ analysis_tbl' =
                     [analysis_tbl EXCEPT ![id] = DeleteRows(@) \o o.errors]
              /\ row_stamp' = [row_stamp EXCEPT ![id] = cache_now]
              /\ games_tbl' = MarkAnalyzed(games_tbl, id)
              /\ last_saved' = [last_saved EXCEPT ![id] = <<o.errors>>]
    /\ UNCHANGED <<cacheFrame, cache_now>>

\* DELETE FROM analysis WHERE date_analyzed < datetime('now', '-30 days')
IsOld(stamp, now) == stamp < now - keep_days

\* clear_old_data: the old rows go, the games table is not touched
ClearOldData ==
    /\ analysis_tbl' =
           [id \in GameIds |->
               IF IsOld(row_stamp[id], cache_now) THEN <<>>
               ELSE analysis_tbl[id]]
    /\ analysis_tbl' # analysis_tbl
    /\ UNCHANGED <<cacheFrame, games_tbl, cacheVars>>

\* fix_analysis.main, lines 90-97: DELETE FROM analysis; UPDATE games SET
\* analyzed = FALSE
Invalidate ==
    /\ analysis_tbl' = [id \in GameIds |-> <<>>]
    /\ games_tbl' = [id \in GameIds |->
                        IF games_tbl[id] = "analyzed" THEN "new"
                        ELSE games_tbl[id]]
    /\ <<analysis_tbl', games_tbl'>> # <<analysis_tbl, games_tbl>>
    /\ UNCHANGED <<cacheFrame, cacheVars>>

NextCache ==
    \/ Tick
    \/ AddGame
    \/ SaveAnalysis
    \/ ClearOldData
    \/ Invalidate

SpecCache == InitCache /\ [][NextCache]_vars

\* ------------------------------------------------------------- cache round trip
\* The list analyze_game returned is saved with save_analysis and read back
\* with get_analysis.  rt_rows is the analysis table restricted to the game:
\* one row per INSERT, in rowid order, each row the tuple of the nine values
\* bound to the statement.

\* the tuple of lines 150-160 without game_id: error.get(key, default) for
\* the nine columns; every key is present in a record of analyze_game
ToRow(e) ==
    <<e.move_number, e.move, e.san_move, e.fen_before, e.eval_before,
      e.eval_after, e.eval_change, e.error_type, e.player>>

\* lines 188-199: the dictionary built from a row of the SELECT, whose
\* columns are move_number, move, san_move, fen_before, eval_before,
\* eval_after, eval_change, error_type, player
FromRow(row) ==
    [move_number |-> row[1],
     move        |-> row[2],
     san_move    |-> row[3],
     fen_before  |-> row[4],
     eval_before |-> row[5],
     eval_after  |-> row[6],
     eval_change |-> row[7],
     error_type  |-> row[8],
     player      |-> row[9]]

OrderedByAnything(rows, perm) == TRUE

\* ORDER BY move_number: the rows come in an order of nondecreasing
\* move_number; SQL leaves the order of rows with equal keys open
OrderedBy(rows, perm) ==
    \A x, y \in DOMAIN perm :
        x < y => rows[perm[x]][1] <= rows[perm[y]][1]

\* the orders in which the SELECT of get_analysis can return the rows
ReadOrders(rows) ==
    {perm \in [DOMAIN rows -> DOMAIN rows] :
        /\ \A x, y \in DOMAIN rows : x # y => perm[x] # perm[y]
        /\ OrderedBy(rows, perm)}

\* save_analysis(game_id, errors) with the list analyze_game returned
SaveResult ==
    /\ pc = "done"
    /\ rt_pc = "idle"
    /\ rt_rows' = [k \in DOMAIN result |-> ToRow(result[k])]
    /\ rt_pc' = "saved"
    /\ UNCHANGED <<analyzerVars, lifeVars, batchVars, cacheVars, explainVars,
                   gameReportVars, fetchVars, rt_got>>

\* get_analysis(game_id)
GetAnalysis ==
    /\ rt_pc = "saved"
    /\ \E perm \in ReadOrders(rt_rows) :
          rt_got' = [k \in DOMAIN rt_rows |-> FromRow(rt_rows[perm[k]])]
    /\ rt_pc' = "got"
    /\ UNCHANGED <<analyzerVars, lifeVars, batchVars, cacheVars, explainVars,
                   gameReportVars, fetchVars, rt_rows>>

NextRoundTrip ==
    \/ InitializeEngine
    \/ AnalyzeStart
    \/ LoopEnd
    \/ SkipPly
    \/ BeginPly
    \/ EvalBefore
    \/ PushMove
    \/ EvalAfter
    \/ Handler
    \/ SaveResult
    \/ GetAnalysis

SpecRoundTrip == Init /\ [][NextRoundTrip]_vars

\* ------------------------------------------------------------- explanation step
\* The end of the sequential run (main.py 110-170) and the explanation call
\* it makes (explain.py 54-122).  An error record is reduced to the fields
\* the step reads: id stands for what tells two records apart (game_info,
\* move_number), eval_change is in centipawns, and explanation is the value
\* under the key 'explanation', NoKey when the dictionary has no such key.

MaxErrs == 3
DefaultMax == 15
NoKey == "(no key)"
Placeholder == "No explanation available."
Explained == "explanation text"
SevChanges == <<-200, -150, -100, -40>>
LongLens == {DefaultMax + 1, DefaultMax + 2}

PlainError(k, change) ==
    [id |-> k, eval_change |-> change, error_type |-> get_error_type(change),
     explanation |-> NoKey]

\* every list of up to MaxErrs records
ShortLists ==
    UNION {{[k \in 1..n |-> PlainError(k, f[k])] :
               f \in [1..n -> {SevChanges[x] : x \in DOMAIN SevChanges}]} :
           n \in 0..MaxErrs}

\* lists longer than the default maximum, the deltas running through
\* SevChanges with stride a
LongLists ==
    {[k \in 1..n |-> PlainError(k, SevChanges[((k * a) % Len(SevChanges)) + 1])] :
        n \in LongLens, a \in {1, 3}}

ErrorLists == ShortLists \cup LongLists

Min2(a, b) == IF a < b THEN a ELSE b
Max2(a, b) == IF a > b THEN a ELSE b

\* errors[:m] of Python
PySlice(s, m) ==
    IF m >= 0 THEN SubSeq(s, 1, Min2(m, Len(s)))
    ELSE SubSeq(s, 1, Max2(0, Len(s) + m))

\* what the service does with a batch of n errors: the call raises, or it
\* answers and _parse_batch_explanations finds ERROR_k blocks for the
\* positions in parsed
ParsedSets(n) ==
    IF n <= MaxErrs + 1 THEN SUBSET (1..n)
    ELSE {{}, 1..n, {k \in 1..n : k % 2 = 1}}

ServiceOutcomes(n) ==
    {[fails |-> TRUE, parsed |-> {}]} \cup
    {[fails |-> FALSE, parsed |-> P] : P \in ParsedSets(n)}

ExceptHandlerAbsent(errs) == [raised |-> TRUE, value |-> <<>>]

\* explain.py 120-122: except Exception: return errors
ExceptHandler(errs) == [raised |-> FALSE, value |-> errs]

\* explain.py 54-122
explain_errors_batch(errs, max_errors, svc) ==
    IF errs = <<>> THEN [raised |-> FALSE, value |-> <<>>]
    ELSE LET errors_to_explain == PySlice(errs, max_errors)
         IN  IF svc.fails THEN ExceptHandler(errs)
             ELSE [raised |-> FALSE,
                   value  |-> [k \in DOMAIN errors_to_explain |->
                                [errors_to_explain[k] EXCEPT !.explanation =
                                    IF k \in svc.parsed THEN Explained
                                    ELSE Placeholder]]]

\* error.get('explanation', 'No explanation available.')
GetExplanation(e) ==
    IF e.explanation = NoKey THEN Placeholder ELSE e.explanation

\* report.py 240-252 and main.py 165-170: the analysis text rendered for
\* each record of the list
Render(errs) == [k \in DOMAIN errs |-> GetExplanation(errs[k])]

TierRank(t) ==
    CASE t = "Blunder" -> 0
      [] t = "Mistake" -> 1
      [] t = "Inaccuracy" -> 2

SortKeyLessDescending(a, b) ==
    \/ TierRank(a.error_type) > TierRank(b.error_type)
    \/ /\ TierRank(a.error_type) = TierRank(b.error_type)
       /\ a.eval_change > b.eval_change

\* main.py 121-124: the sort key (tier rank, eval_change), compared as tuples
SortKeyLess(a, b) ==
    \/ TierRank(a.error_type) < TierRank(b.error_type)
    \/ /\ TierRank(a.error_type) = TierRank(b.error_type)
       /\ a.eval_change < b.eval_change

\* e placed into the sorted s behind every element whose key is not greater
InsertSorted(e, s) ==
    LET p == Cardinality({j \in DOMAIN s : ~SortKeyLess(e, s[j])})
    IN  SubSeq(s, 1, p) \o <<e>> \o SubSeq(s, p + 1, Len(s))

RECURSIVE SortErrors(_)
\* list.sort(key=...): a stable sort, here by insertion from the left
SortErrors(s) ==
    IF s = <<>> THEN <<>>
    ELSE InsertSorted(s[Len(s)], SortErrors(SubSeq(s, 1, Len(s) - 1)))

\* no batch script is running and the cache is empty
InitBatchIdle ==
    /\ script = "improve"
    /\ stockfish = TRUE
    /\ lost_games = <<>>
    /\ mainpc = "idle"
    /\ next_game = 1
    /\ games_to_analyze = <<>>
    /\ cached_games = <<>>
    /\ games_tbl = <<>>
    /\ analysis_tbl = <<>>
    /\ tx = NoTx
    /\ tasks = <<>>
    /\ procs = <<>>
    /\ interrupted = FALSE
    /\ games0 = <<>>
    /\ analysis0 = <<>>
    /\ commits = <<>>

Answers == {"y", "n", "a"}
\* what the user types at the second prompt: <<x>> when int() reads the
\* number x, <<>> when it raises ValueError
TypedNumbers == {-1, 0, 1, 2, DefaultMax + 1, DefaultMax + 5}
Typings == {<<>>} \cup {<<x>> : x \in TypedNumbers}

InitMain ==
    /\ AnalyzerIdle
    /\ InitBatchIdle
    /\ LifeIdle
    /\ CacheIdle
    /\ TripIdle
    /\ GameReportIdle
    /\ FetchIdle
    /\ mpc = "analysed"
    /\ all0 \in ErrorLists
    /\ all_errors = all0
    /\ adjust_errors = ""
    /\ typed = <<>>
    /\ max_errors_to_explain = 0
    /\ ex_in = <<>>
    /\ ex_max = 0
    /\ service = "unused"
    /\ explained_errors = <<>>
    /\ report_content = <<>>

explainFrame == <<analyzerVars, lifeVars, batchVars, cacheVars, tripVars,
                  gameReportVars, fetchVars>>

\* main.py 110, 171-172: no error in any game, nothing to explain or report
NoErrors ==
    /\ mpc = "analysed"
    /\ all_errors = <<>>
    /\ mpc' = "done"
    /\ UNCHANGED <<explainFrame, all0, all_errors, adjust_errors, typed,
                   max_errors_to_explain, ex_in, ex_max, service,
                   explained_errors, report_content>>

\* main.py 110-133: sort, default number, first prompt
SortAndAsk ==
    /\ mpc = "analysed"
    /\ all_errors # <<>>
    /\ all_errors' = SortErrors(all_errors)
    /\ max_errors_to_explain' = Min2(DefaultMax, Len(all_errors))
    /\ adjust_errors' \in Answers
    /\ mpc' = "answered"
    /\ UNCHANGED <<explainFrame, all0, typed, ex_in, ex_max, service,
                   explained_errors, report_content>>

\* main.py 140-142, 145-146, 152-154 then 156-170: the call of
\* explain_errors_batch with the first k errors, the report and the summary;
\* an exception leaving the call ends the run in main's handler (180)
ExplainAndReport(k) ==
    /\ max_errors_to_explain' = k
    /\ ex_in' = PySlice(all_errors, k)
    /\ ex_max' = k
    /\ \E svc \in ServiceOutcomes(Len(PySlice(ex_in', k))) :
          LET r == explain_errors_batch(ex_in', k, svc)
          IN  /\ service' = IF svc.fails THEN "failed" ELSE "answered"
              /\ IF r.raised
                 THEN /\ mpc' = "crashed"
                      /\ UNCHANGED <<explained_errors, report_content>>
                 ELSE /\ mpc' = "done"
                      /\ explained_errors' = r.value
                      /\ report_content' = Render(r.value)

\* main.py 135-147: 'a', the number typed, clamped to 1..n; no number typed
\* leaves the default
Adjust ==
    /\ mpc = "answered"
    /\ adjust_errors = "a"
    /\ \E t \in Typings :
          /\ typed' = t
          /\ IF t = <<>>
             THEN ExplainAndReport(max_errors_to_explain)
             ELSE ExplainAndReport(Max2(1, Min2(t[1], Len(all_errors))))
    /\ UNCHANGED <<explainFrame, all0, all_errors, adjust_errors>>

\* main.py 148-150 then 156-170: anything but 'y' and 'a'
Skip ==
    /\ mpc = "answered"
    /\ adjust_errors \notin {"y", "a"}
    /\ explained_errors' = <<>>
    /\ report_content' = Render(<<>>)
    /\ mpc' = "done"
    /\ UNCHANGED <<explainFrame, all0, all_errors, adjust_errors, typed,
                   max_errors_to_explain, ex_in, ex_max, service>>

\* main.py 151-154 then 156-170: 'y'
Accept ==
    /\ mpc = "answered"
    /\ adjust_errors = "y"
    /\ ExplainAndReport(max_errors_to_explain)
    /\ UNCHANGED <<explainFrame, all0, all_errors, adjust_errors, typed>>

NextMain ==
    \/ NoErrors
    \/ SortAndAsk
    \/ Adjust
    \/ Skip
    \/ Accept

SpecMain == InitMain /\ [][NextMain]_vars

\* explain_errors_batch called on its own, with any list and any maximum
MaxArgs == {0, 1, 2, DefaultMax}

InitExplain ==
    /\ AnalyzerIdle
    /\ InitBatchIdle
    /\ LifeIdle
    /\ CacheIdle
    /\ TripIdle
    /\ GameReportIdle
    /\ FetchIdle
    /\ mpc = "call"
    /\ all0 = <<>>
    /\ all_errors = <<>>
    /\ adjust_errors = ""
    /\ typed = <<>>
    /\ max_errors_to_explain = 0
    /\ ex_in \in ErrorLists
    /\ ex_max \in MaxArgs
    /\ service = "unused"
    /\ explained_errors = <<>>
    /\ report_content = <<>>

\* explain.py 54-122
ExplainCall ==
    /\ mpc = "call"
    /\ \E svc \in ServiceOutcomes(Len(PySlice(ex_in, ex_max))) :
          LET r == explain_errors_batch(ex_in, ex_max, svc)
          IN  /\ service' = IF ex_in = <<>> THEN "unused"
                            ELSE IF svc.fails THEN "failed" ELSE "answered"
              /\ mpc' = IF r.raised THEN "crashed" ELSE "returned"
              /\ explained_errors' = r.value
    /\ UNCHANGED <<explainFrame, all0, all_errors, adjust_errors, typed,
                   max_errors_to_explain, ex_in, ex_max, report_content>>

NextExplain ==
    \/ ExplainCall

SpecExplain == InitExplain /\ [][NextExplain]_vars

\* ------------------------------------------------------------- game report
\* generate_game_report(username, game_data, blunders, explanations)
\* (report.py 28-74).  A blunder is reduced to its move_number, an
\* explanation to the value under 'why_blunder' (NoKey: no such key) and,
\* for reading the result, the position in the list it was written for.
\* The report is its summary count and the list of its blunder sections.

MaxBlunders == 3
MoveNumbers == {1, 2}
WhyTexts == {"why", NoKey}

BlunderLists ==
    UNION {[1..n -> [move_number : MoveNumbers]] : n \in 0..MaxBlunders}

ExplanationLists ==
    UNION {{[k \in 1..n |-> [about |-> k, why_blunder |-> f[k]]] :
               f \in [1..n -> WhyTexts]} : n \in 0..MaxBlunders}

InitGameReport ==
    /\ AnalyzerIdle
    /\ InitBatchIdle
    /\ LifeIdle
    /\ CacheIdle
    /\ TripIdle
    /\ ExplainIdle
    /\ FetchIdle
    /\ gr_pc = "call"
    /\ blunders \in BlunderLists
    /\ explanations \in ExplanationLists
    /\ sections = <<>>
    /\ blunders_found = 0

\* zip(a, b) of Python: as long as the shorter list
Zip(a, b) ==
    [k \in 1..Min2(Len(a), Len(b)) |-> <<a[k], b[k]>>]

\* report.py 76-115: the number, the move and the text under
\* 'why_blunder', 'No explanation available.' without the key
format_blunder_section(blunder_num, blunder, explanation) ==
    [number      |-> blunder_num,
     move_number |-> blunder.move_number,
     about       |-> explanation.about,
     why         |-> IF explanation.why_blunder = NoKey THEN Placeholder
                     ELSE explanation.why_blunder]

\* report.py 28-74
GenerateGameReport ==
    /\ gr_pc = "call"
    /\ blunders_found' = Len(blunders)
    /\ sections' =
          IF blunders = <<>> THEN <<>>
          ELSE LET pairs == Zip(blunders, explanations)
               IN  [k \in DOMAIN pairs |->
                       format_blunder_section(k, pairs[k][1], pairs[k][2])]
    /\ gr_pc' = "rendered"
    /\ UNCHANGED <<analyzerVars, lifeVars, batchVars, cacheVars, tripVars,
                   explainVars, fetchVars, blunders, explanations>>

NextGameReport ==
    \/ GenerateGameReport

SpecGameReport == InitGameReport /\ [][NextGameReport]_vars

\* ------------------------------------------------------------- lost games
\* get_last_n_lost_games(api, username, n) (fix_analysis.py 28-72).
\* archives is what the server holds: the monthly archives in the order of
\* the archive list (oldest month first), each the games of the month in
\* the order of the month's answer (oldest game first).  A game is reduced
\* to the time it was played (month, place in the month) and the result
\* code of the user's side.

MaxMonths == 2
MaxMonthGames == 2
MaxN == 2
UserResults == {"win", "resigned"}
LostResults == {"checkmated", "timeout", "resigned", "lose", "abandoned",
                "timeout vs computer"}

MonthShapes ==
    UNION {[1..g -> UserResults] : g \in 0..MaxMonthGames}

ArchiveLists ==
    UNION {{[m \in 1..k |->
               [j \in DOMAIN f[m] |->
                   [month |-> m, place |-> j, user_result |-> f[m][j]]]] :
               f \in [1..k -> MonthShapes]} : k \in 0..MaxMonths}

InitFetch ==
    /\ AnalyzerIdle
    /\ InitBatchIdle
    /\ LifeIdle
    /\ CacheIdle
    /\ TripIdle
    /\ ExplainIdle
    /\ GameReportIdle
    /\ fx_pc = "call"
    /\ archives \in ArchiveLists
    /\ fx_n \in 1..MaxN
    /\ archive_urls = <<>>
    /\ fx_lost_games = <<>>
    /\ fx_returned = <<>>

fetchFrame == <<analyzerVars, lifeVars, batchVars, cacheVars, tripVars,
                explainVars, gameReportVars>>

\* s[::-1]
Reversed(s) == [k \in DOMAIN s |-> s[Len(s) + 1 - k]]

\* lines 58-65: the user's side has one of the losing result codes
UserLost(game) == game.user_result \in LostResults

\* lines 32-41, the archive list answered: the months, most recent first
FetchArchives ==
    /\ fx_pc = "call"
    /\ archive_urls' = Reversed([m \in DOMAIN archives |-> m])
    /\ fx_pc' = "months"
    /\ UNCHANGED <<fetchFrame, archives, fx_n, fx_lost_games, fx_returned>>

\* lines 34-38: the archive list request fails
FetchArchivesFails ==
    /\ fx_pc = "call"
    /\ fx_returned' = <<>>
    /\ fx_pc' = "returned"
    /\ UNCHANGED <<fetchFrame, archives, fx_n, archive_urls, fx_lost_games>>

\* lines 44-48: the request for the next month fails, continue
FetchMonthFails ==
    /\ fx_pc = "months"
    /\ archive_urls # <<>>
    /\ archive_urls' = Tail(archive_urls)
    /\ UNCHANGED <<fetchFrame, fx_pc, archives, fx_n, fx_lost_games,
                   fx_returned>>

\* lost_games after the first j games of the month
CollectedAfter(acc, month_games, j) ==
    acc \o SelectSeq(SubSeq(month_games, 1, j), UserLost)

\* lines 49-69: the games of the next month in the order of the answer;
\* the function returns behind the first game at which n are collected
FetchMonth ==
    /\ fx_pc = "months"
    /\ archive_urls # <<>>
    /\ LET month_games == archives[Head(archive_urls)]
           stops == {j \in DOMAIN month_games :
                        Len(CollectedAfter(fx_lost_games, month_games, j)) >= fx_n}
       IN  IF stops = {}
           THEN /\ fx_lost_games' =
                       CollectedAfter(fx_lost_games, month_games, Len(month_games))
                /\ archive_urls' = Tail(archive_urls)
                /\ UNCHANGED <<fx_pc, fx_returned>>
           ELSE LET j == CHOOSE x \in stops : \A y \in stops : x <= y
                IN  /\ fx_lost_games' =
                           CollectedAfter(fx_lost_games, month_games, j)
                    /\ fx_returned' = PySlice(fx_lost_games', fx_n)
                    /\ fx_pc' = "returned"
                    /\ UNCHANGED archive_urls
    /\ UNCHANGED <<fetchFrame, archives, fx_n>>

\* lines 71-72: every month was visited
FetchEnd ==
    /\ fx_pc = "months"
    /\ archive_urls = <<>>
    /\ fx_returned' = fx_lost_games
    /\ fx_pc' = "returned"
    /\ UNCHANGED <<fetchFrame, archives, fx_n, archive_urls, fx_lost_games>>

NextFetch ==
    \/ FetchArchives
    \/ FetchArchivesFails
    \/ FetchMonthFails
    \/ FetchMonth
    \/ FetchEnd

SpecFetch == InitFetch /\ [][NextFetch]_vars

\* ------------------------------------------------------------- claims

\* C1: get_error_type is total and, with the default thresholds, returns
\* Blunder iff delta <= -1.5, Mistake iff -1.5 < delta <= -0.8, Inaccuracy
\* iff -0.8 < delta <= -0.3 and Good iff delta > -0.3 (deltas in centipawns);
\* every boundary value belongs to the worse tier.
C1_Classifier ==
    tier # "none" =>
        /\ tier \in {"Blunder", "Mistake", "Inaccuracy", "Good"}
        /\ (tier = "Blunder") <=> (delta_in <= -150)
        /\ (tier = "Mistake") <=> (-150 < delta_in /\ delta_in <= -80)
        /\ (tier = "Inaccuracy") <=> (-80 < delta_in /\ delta_in <= -30)
        /\ (tier = "Good") <=> (delta_in > -30)

C1_Witness ==
    /\ delta_in = -80
    /\ tier = "Mistake"

\* --- vocabulary of the claims about analyze_game
\* the side that makes the k-th move of the game
TrueMover(k) == IF k % 2 = 1 THEN firstTurn ELSE Flip(firstTurn)

\* pairs (username, header name) that are equal up to case
SameName == {<<"ALICE", "Alice">>, <<"bob", "Bob">>}

\* the k-th move of the game is a move of the tracked player
TrackedPly(k) ==
    \/ (TrueMover(k) = "White" /\ <<username, white>> \in SameName)
    \/ (TrueMover(k) = "Black" /\ <<username, black>> \in SameName)

\* the tier of a delta, written out from the thresholds in centipawns
TierOf(d) ==
    CASE d <= -150 -> "Blunder"
      [] -150 < d /\ d <= -80 -> "Mistake"
      [] -80 < d /\ d <= -30 -> "Inaccuracy"
      [] OTHER -> "Good"

ScoreOrZero(info) == IF Len(info) = 0 THEN 0 ELSE info[1]

\* C2: for every analysed ply the stored delta is (after - before) when White
\* made the move and (before - after) when Black made it; before = +0.50,
\* after = -1.00 gives -1.50, a Blunder record, for a White ply and +1.50, no
\* record, for a Black ply.
C2_MoverDelta ==
    /\ \A j \in 1..Len(errors) :
         errors[j].eval_change =
            IF TrueMover(errors[j].move) = "White"
            THEN errors[j].eval_after - errors[j].eval_before
            ELSE errors[j].eval_before - errors[j].eval_after
    /\ \A k \in 1..Len(analysed) :
         (analysed[k].done /\ analysed[k].before = <<50>>
                           /\ analysed[k].after = <<-100>>) =>
            IF TrueMover(analysed[k].ply) = "White"
            THEN \E j \in 1..Len(errors) :
                    /\ errors[j].move = analysed[k].ply
                    /\ errors[j].eval_change = -150
                    /\ errors[j].error_type = "Blunder"
            ELSE /\ analysed[k].change = 150
                 /\ \A j \in 1..Len(errors) :
                       errors[j].move # analysed[k].ply

\* C3: a ply analysed without a failure has an error record iff its delta is
\* <= the inaccuracy threshold (-0.3); the record carries that delta and the
\* tier of that delta, and no record has error_type Good.
C3_RecordIffError ==
    /\ \A k \in 1..Len(analysed) :
         analysed[k].done =>
            /\ (\E j \in 1..Len(errors) : errors[j].move = analysed[k].ply)
                  <=> (analysed[k].change <= -30)
            /\ \A j \in 1..Len(errors) :
                  errors[j].move = analysed[k].ply =>
                     /\ errors[j].eval_change = analysed[k].change
                     /\ errors[j].error_type = TierOf(analysed[k].change)
    /\ \A j \in 1..Len(errors) :
         /\ errors[j].error_type \in {"Blunder", "Mistake", "Inaccuracy"}
         /\ \E k \in 1..Len(analysed) :
               analysed[k].done /\ analysed[k].ply = errors[j].move
    /\ pc = "done" =>
         \A j \in 1..Len(result) : result[j].error_type # "Good"

C3_Witness ==
    /\ pc = "done"
    /\ \E j \in 1..Len(result) : result[j].eval_change = -50
    /\ \E k \in 1..Len(analysed) :
          /\ analysed[k].done
          /\ analysed[k].change = 0
          /\ \A j \in 1..Len(result) : result[j].move # analysed[k].ply

\* C4: when the username equals neither header name up to case, analyze_game
\* returns the empty list, calls the evaluator never and replays no move.
C4_UnknownPlayerAborts ==
    (<<username, white>> \notin SameName /\ <<username, black>> \notin SameName) =>
        /\ pc \in {"idle", "done"}
        /\ calls = <<>>
        /\ visits = <<>>
        /\ board.stack = <<>>
        /\ errors = <<>>
        /\ pc = "done" => (result = <<>> /\ retAt # "loop_end" /\ retAt # "break")

C4_Witness ==
    /\ username = "carol"
    /\ nPlies > 0
    /\ pc = "done"
    /\ retAt = "username"
    /\ result = <<>>

\* C5: the evaluator is called only for plies of the tracked player; the
\* calls of a ply are the position before the move and then the position
\* after exactly that move; a failure-free run makes twice as many calls as
\* the tracked player has plies.
C5_EvaluatorCalls ==
    /\ \A j \in 1..Len(calls) : TrackedPly(calls[j].ply)
    /\ \A j \in 1..Len(calls) :
         calls[j].phase = "after" =>
            /\ j > 1
            /\ calls[j - 1].phase = "before"
            /\ calls[j - 1].ply = calls[j].ply
            /\ calls[j].fen = <<Append(calls[j - 1].fen[1], calls[j].ply),
                                Flip(calls[j - 1].fen[2])>>
    /\ \A j, k \in 1..Len(calls) :
         (calls[j].ply = calls[k].ply /\ calls[j].phase = calls[k].phase) => j = k
    /\ (pc = "done" /\ retAt = "loop_end" /\ handled = <<>>) =>
         Len(calls) = 2 * Cardinality({k \in 1..nPlies : TrackedPly(k)})

\* C6: the move_number values of the records are strictly increasing and each
\* is the 1-based index of the record's move among all plies of the game,
\* also when earlier plies went through the per-ply failure handler.
C6_MoveNumbers ==
    /\ \A j \in 1..Len(errors) :
         /\ errors[j].move \in 1..nPlies
         /\ errors[j].move_number = errors[j].move
    /\ \A j, k \in 1..Len(errors) :
         j < k => errors[j].move_number < errors[k].move_number
    /\ pc = "done" /\ retAt \in {"loop_end", "break"} => result = errors

C6_Witness ==
    /\ pc = "done"
    /\ Len(result) >= 2
    /\ \E h \in 1..Len(handled) :
          /\ handled[h].ply > result[1].move
          /\ handled[h].ply < result[2].move

\* C7: when the evaluator gives no score for one of the two evaluations of a
\* ply and a score for the other, the missing one counts as 0.0, the delta
\* is computed and classified as usual, and the walk goes on to the plies
\* that follow without aborting.
C7_AbsentScoreIsZero ==
    /\ \A k \in 1..Len(analysed) :
         LET e == analysed[k]
             b == ScoreOrZero(e.before)
             a == ScoreOrZero(e.after)
             d == IF e.whiteTurn THEN a - b ELSE b - a
         IN (e.done /\ ((Len(e.before) = 0) # (Len(e.after) = 0))) =>
               /\ e.change = d
               /\ (d <= -30) <=> (\E j \in 1..Len(errors) : errors[j].move = e.ply)
               /\ \A j \in 1..Len(errors) :
                     errors[j].move = e.ply =>
                        /\ errors[j].eval_before = b
                        /\ errors[j].eval_after = a
                        /\ errors[j].eval_change = d
                        /\ errors[j].error_type = TierOf(d)
               /\ i > e.ply
               /\ \A h \in 1..Len(handled) : handled[h].ply # e.ply
    /\ (pc = "done" /\ handled = <<>> /\ retAt \notin {"engine", "parse", "username"}) =>
         /\ retAt = "loop_end"
         /\ Len(visits) = nPlies

C7_Witness ==
    /\ pc = "done"
    /\ retAt = "loop_end"
    /\ handled = <<>>
    /\ \E k \in 1..Len(analysed) :
          /\ analysed[k].done
          /\ analysed[k].before = None
          /\ analysed[k].after = <<-100>>
          /\ analysed[k].whiteTurn
          /\ analysed[k].ply < nPlies
          /\ \E j \in 1..Len(result) :
                /\ result[j].move = analysed[k].ply
                /\ result[j].eval_before = 0
                /\ result[j].error_type = "Mistake"

\* C8: when one evaluator call of a ply raises, before or after the move, the
\* evaluation counts as absent (zero), the ply is still classified from the
\* resulting delta, and the analysis goes on with every remaining ply.
C8_EvaluatorFailureRecovered ==
    /\ \A h \in 1..Len(handled) :
         (handled[h].at \in {"before", "after"} /\ (i > handled[h].ply \/ pc = "done")) =>
            \E k \in 1..Len(analysed) :
               analysed[k].ply = handled[h].ply /\ analysed[k].done
    /\ (/\ pc = "done"
        /\ retAt \notin {"engine", "parse", "username"}
        /\ \A h \in 1..Len(handled) : handled[h].at \in {"before", "after"}) =>
         /\ retAt = "loop_end"
         /\ Len(visits) = nPlies

\* an analysed ply whose delta is an error
IsErrorEntry(e) == e.done /\ e.change <= -30

\* C9: when the board cannot advance at some ply (the push fails in the
\* failure handler too), analyze_game stops at that ply and returns exactly
\* the records appended for the earlier plies, in order; it does not raise
\* and does not return an empty list in their place.
C9_HaltReturnsAccumulated ==
    retAt = "break" =>
        LET sel == SelectSeq(analysed, IsErrorEntry)
        IN /\ pc = "done"
           /\ i \in 1..nPlies
           /\ Len(visits) = i
           /\ handled # <<>>
           /\ handled[Len(handled)].ply = i
           /\ Len(result) = Len(sel)
           /\ \A j \in 1..Len(result) :
                 /\ result[j].move = sel[j].ply
                 /\ result[j].move < i
                 /\ result[j].eval_change = sel[j].change
                 /\ result[j].eval_before = ScoreOrZero(sel[j].before)
                 /\ result[j].eval_after = ScoreOrZero(sel[j].after)

C9_Witness ==
    /\ retAt = "break"
    /\ Len(result) >= 1
    /\ handled[Len(handled)].at = "push"

\* each ply is visited at most once, in game order
VisitsInOrder ==
    /\ Len(visits) <= nPlies
    /\ \A k \in 1..Len(visits) : visits[k] = k

Completed == retAt = "loop_end" /\ Len(visits) = nPlies
Aborted == retAt \in {"engine", "parse", "username"} /\ visits = <<>> /\ result = <<>>
HaltedEarly ==
    /\ retAt = "break"
    /\ Len(visits) = i
    /\ i <= nPlies
    /\ result = errors

\* C10 as claimed: every run ends either Completed, with all plies visited,
\* or Aborted, with the empty list returned; each ply is visited at most once.
C10_TwoTerminalStates ==
    /\ VisitsInOrder
    /\ pc = "done" => (Len(visits) = nPlies \/ Aborted)

\* the steps that are left: strictly smaller after every step of analyze_game
Rank ==
    CASE pc = "done" -> 0
      [] pc = "idle" -> 5 * (nPlies + 2) + (IF engine = "none" THEN 1 ELSE 0)
      [] pc = "loop" -> 5 * (nPlies + 1 - i) + 5
      [] pc = "evalBefore" -> 5 * (nPlies + 1 - i) + 4
      [] pc = "push" -> 5 * (nPlies + 1 - i) + 3
      [] pc = "evalAfter" -> 5 * (nPlies + 1 - i) + 2
      [] pc = "handler" -> 5 * (nPlies + 1 - i) + 1

TerminalState ==
    /\ VisitsInOrder
    /\ Rank >= 0
    /\ pc = "done" =>
         \/ Completed /\ ~Aborted /\ ~HaltedEarly
         \/ Aborted /\ ~Completed /\ ~HaltedEarly
         \/ HaltedEarly /\ ~Completed /\ ~Aborted

\* C10 amended: every run terminates after visiting each ply at most once and
\* ends in exactly one of three terminal states: Completed (all plies
\* visited), Aborted (engine not started, move text unparsable or username
\* not found: no ply visited, empty list) or HaltedEarly (a move could not be
\* applied: the walk stopped at that ply and the records so far are returned).
C10_ThreeTerminalStates == [][Rank' < Rank /\ TerminalState']_vars

C10_Witness ==
    /\ pc = "done"
    /\ HaltedEarly
    /\ Len(result) >= 1
    /\ Len(visits) < nPlies


\* --- C11: determinism --------------------------------------------------
\* C11.  For a fixed game text and username, and an evaluator that returns
\* the same score for the same position, analyze_game returns the same list
\* of error records, in the same order, each time it is called; the result
\* does not depend on the earlier analysis made with the same analyzer.
\* Checked in SpecTwice: when the second call has returned, its list equals
\* the list the first call returned, and it returned from the same place.
C11_Deterministic ==
    (run = 2 /\ pc = "done") =>
        /\ result = firstResult
        /\ retAt = firstRetAt

\* the second call has returned a list of two records after a complete pass
C11_Witness ==
    /\ run = 2
    /\ pc = "done"
    /\ retAt = "loop_end"
    /\ Len(result) = 2
    /\ Len(firstResult) = 2


\* --- vocabulary of the claims about the batch
\* the game at position k of lost_games has been through the loop and its
\* entry was marked analyzed when add_game / game_analyzed looked at it
\* (fix_analysis unmarks every entry before its loop)
IdAt(k) == generate_game_id(lost_games[k])
SubmittedAnalyzed(k) ==
    /\ k < next_game
    /\ script = "improve"
    /\ games0[IdAt(k)] = "analyzed"

\* the tasks that have sent a request to an evaluator process
Requesters == UNION {procs[p].reqs : p \in DOMAIN procs}

\* --- C12: cache skip ---------------------------------------------------
\* C12.  A game whose entry is marked analyzed when it is submitted to the
\* batch gets no worker task and no evaluator request; its flag and stored
\* rows stay as they were, and the rows read from the cache are among the
\* lists the batch uses (cached_games).
C12_CacheSkip ==
    \A k \in DOMAIN lost_games :
        SubmittedAnalyzed(k) =>
            /\ \A j \in DOMAIN games_to_analyze :
                   /\ games_to_analyze[j].game # lost_games[k]
                   /\ games_to_analyze[j].game_id # IdAt(k)
            /\ \A t \in DOMAIN tasks : tasks[t].game_id # IdAt(k)
            /\ \A t \in Requesters : tasks[t].game_id # IdAt(k)
            /\ games_tbl[IdAt(k)] = "analyzed"
            /\ analysis_tbl[IdAt(k)] = analysis0[IdAt(k)]
            /\ \E j \in DOMAIN cached_games :
                   cached_games[j] = analysis0[IdAt(k)]

\* a batch with one cached game and one analysed game whose save committed
C12_Witness ==
    /\ \E k \in DOMAIN lost_games : SubmittedAnalyzed(k)
    /\ \E t \in DOMAIN tasks :
           /\ tasks[t].st = "done"
           /\ tasks[t].kind = "complete"
           /\ t \in Requesters


\* --- C13: analyzed only after a full pass ------------------------------
\* C13.  A game's analyzed flag becomes true only after a full, successful
\* analysis pass: every save that committed in the batch (and so set the
\* flag of its entry) belongs to a task whose pass was complete, never to
\* one that aborted or halted early.
C13_FlagOnlyAfterFullPass ==
    \A id \in DOMAIN commits :
        \A j \in DOMAIN commits[id] :
            /\ games_tbl[id] = "analyzed"
            /\ tasks[commits[id][j]].kind = "complete"


\* --- C14: replace semantics of save_analysis ---------------------------
\* the task of the last save that committed for an entry, and the rows of
\* an entry no save of this batch has committed for (fix_analysis empties
\* the analysis table before its loop)
LastCommit(id) == commits[id][Len(commits[id])]
Untouched(id) ==
    IF script = "fix" /\ mainpc # "clear" THEN <<>> ELSE analysis0[id]

\* C14.  After save_analysis(g, L1) and then save_analysis(g, L2) the rows
\* stored for g are exactly L2; the rows of every other game are unchanged;
\* g is marked analyzed only together with the rows of a save.  As an
\* invariant of the batch: an entry with committed saves holds exactly the
\* list of the last of them and is marked analyzed; an entry without one
\* holds the rows it had and is marked analyzed only if it was before.
C14_ReplaceSemantics ==
    \A id \in DOMAIN commits :
        IF commits[id] # <<>>
        THEN /\ analysis_tbl[id] = tasks[LastCommit(id)].errors
             /\ games_tbl[id] = "analyzed"
        ELSE /\ analysis_tbl[id] = Untouched(id)
             /\ games_tbl[id] = "analyzed" =>
                    /\ games0[id] = "analyzed"
                    /\ (script = "improve" \/ mainpc = "clear")

\* two saves of different non-empty lists have committed for one entry
\* while another entry holds rows of an earlier batch
C14_Witness ==
    \E id \in DOMAIN commits, other \in DOMAIN commits :
        /\ Len(commits[id]) = 2
        /\ tasks[commits[id][1]].errors # <<>>
        /\ tasks[commits[id][2]].errors # <<>>
        /\ tasks[commits[id][1]].errors # tasks[commits[id][2]].errors
        /\ analysis_tbl[id] = tasks[commits[id][2]].errors
        /\ other # id
        /\ analysis_tbl[other] = PriorRows


C16_OneTaskPerEntry ==
    \A t1, t2 \in DOMAIN tasks :
        t1 # t2 => tasks[t1].game_id # tasks[t2].game_id


\* --- C17: evaluator unavailable ----------------------------------------
\* C17.  If the evaluator process cannot be started, the batch fails fast:
\* no worker writes an Error Record list to the cache and no game is marked
\* analyzed by the batch.
C17_FailFast ==
    ~stockfish =>
        \A id \in DOMAIN commits :
            /\ commits[id] = <<>>
            /\ games_tbl[id] = "analyzed" => games0[id] = "analyzed"


\* --- C18: one evaluator process per worker task ------------------------
\* C18.  In a parallel batch every evaluator process is owned by exactly
\* one worker task, gets evaluation requests only from that task's
\* analysis, and is live only while that task runs; no process serves two
\* analyses.
C18_EngineNotShared ==
    \A p \in DOMAIN procs :
        /\ {t \in DOMAIN tasks : tasks[t].pid = p} = {procs[p].owner}
        /\ procs[p].reqs \subseteq {procs[p].owner}
        /\ procs[p].live => InFlight(procs[p].owner)

\* two analyses overlap: two live processes, each with the requests of its
\* own task
C18_Witness ==
    \E p1, p2 \in DOMAIN procs :
        /\ p1 # p2
        /\ procs[p1].live /\ procs[p2].live
        /\ procs[p1].reqs = {procs[p1].owner}
        /\ procs[p2].reqs = {procs[p2].owner}
        /\ procs[p1].owner # procs[p2].owner


\* --- C20: interrupt ----------------------------------------------------
\* C20.  After a user interrupt during batch processing no analysis that
\* had not started is started, and every analysis that was in flight at
\* the interrupt runs to completion and has its result persisted: no task
\* starts after the interrupt, and a task that was in flight at the
\* interrupt ends only with its save committed.
C20_InterruptDrains ==
    interrupted =>
        \A t \in DOMAIN tasks :
            /\ ~tasks[t].afterInt
            /\ (tasks[t].atInt /\ Ended(t)) => tasks[t].st = "done"


\* --- C19: evaluator lifecycle ------------------------------------------
\* C19.  For one ChessAnalyzer, over any sequence of initialize_engine,
\* analyze_game, get_best_move, get_position_evaluation and close_engine
\* calls: at most one evaluator process is live at a time, a process the
\* analyzer no longer holds has been shut down, no process is shut down
\* more than once, and no request is made to a process after its shutdown.
C19_Lifecycle ==
    /\ Cardinality({p \in DOMAIN started : started[p].live}) <= 1
    /\ \A p \in DOMAIN started :
           /\ started[p].live => p = self_engine
           /\ started[p].quits <= 1
           /\ ~started[p].late


\* --- C23: player label -------------------------------------------------
\* C23.  Every Error Record's player label equals the colour that was to
\* move in the position the record was evaluated from (the side to move in
\* its fen_before), for every game in which the username matches a header
\* name, also when the White and Black header names are equal.
C23_LabelIsMover ==
    \A k \in DOMAIN errors : errors[k].player = errors[k].fen_before[2]

\* --- C25: the board follows the game -----------------------------------
\* C25.  After each ply is processed, on the normal path or through the
\* per-ply failure handler, the board holds exactly the first k moves of
\* the game, each applied once (k = plies processed so far), and the side
\* to move is the one of the game: whenever the loop is about to take
\* move i, the board holds moves 1..i-1 and the turn is the true mover's.
C25_BoardFollowsGame ==
    pc = "loop" =>
        /\ Intact(board, i)
        /\ board.turn = TrueMover(i)


\* --- C26: the cache identifier separates games -------------------------
\* C26.  Two Game Records with different move sequences, submitted for the
\* same username, never share a cache entry, so the records a cache hit
\* returns for a game were produced by analysing that game: the games of a
\* batch have pairwise different identifiers, and an entry that a save of
\* the batch marked analyzed holds, for every game of the batch it is the
\* entry of, only records of that game.
C26_EntryHoldsOwnGame ==
    \A k \in DOMAIN lost_games :
        LET game == lost_games[k]
            id == generate_game_id(game)
        IN  /\ \A j \in DOMAIN lost_games :
                   j # k => generate_game_id(lost_games[j]) # id
            /\ (games_tbl[id] = "analyzed" /\ commits[id] # <<>>) =>
                   \A r \in DOMAIN analysis_tbl[id] :
                       analysis_tbl[id][r][1] = game.tail


\* --- C27: deleting records clears the flag -----------------------------
\* C27.  Every operation that deletes stored records of a game also clears
\* the game's analyzed flag, so after any sequence of add_game,
\* save_analysis, clear_old_data and invalidation a game that is marked
\* analyzed still holds the complete list written by its last
\* save_analysis.
C27_AnalyzedHoldsLastSave ==
    \A id \in DOMAIN games_tbl :
        games_tbl[id] = "analyzed" =>
            /\ last_saved[id] # <<>>
            /\ analysis_tbl[id] = last_saved[id][1]


\* --- C28: cache round trip ---------------------------------------------
\* C28.  For every Error Record list L that analyze_game can return for a
\* game, get_analysis(g) called after save_analysis(g, L) returns the
\* records of L in the same order with all nine fields equal.
C28_RoundTrip ==
    rt_pc = "got" => rt_got = result

\* a list of two records, returned after a complete pass, was saved and
\* read back
C28_Witness ==
    /\ rt_pc = "got"
    /\ retAt = "loop_end"
    /\ Len(result) = 2
    /\ Len(rt_got) = 2


\* --- C21: a failing explanation service --------------------------------
\* C21.  A failure of the explanation service never propagates out of
\* explain_errors_batch and never stops the run: the pipeline goes on to
\* report generation, and every record that got no explanation is rendered
\* with the placeholder text.
C21_FailureDegrades ==
    /\ mpc # "crashed"
    /\ service = "failed" =>
          /\ mpc = "done"
          /\ Len(explained_errors) = Len(ex_in)
    /\ mpc = "done" =>
          /\ Len(report_content) = Len(explained_errors)
          /\ \A k \in DOMAIN explained_errors :
                explained_errors[k].explanation \in {NoKey, Placeholder} =>
                    report_content[k] = Placeholder

\* the service failed on a batch of two errors or more and the report has
\* the placeholder for each
C21_Witness ==
    /\ mpc = "done"
    /\ service = "failed"
    /\ Len(report_content) >= 2
    /\ \A k \in DOMAIN report_content : report_content[k] = Placeholder

\* --- C22: the cap of explain_errors_batch ------------------------------
\* C22.  explain_errors_batch(errors, max_errors) returns at most
\* max_errors records for every input list, whether the explanation call
\* succeeds or fails; the records returned are the first
\* min(len(errors), max_errors) of the input, in input order.
C22_AtMostMax ==
    mpc = "returned" =>
        LET m == Min2(Len(ex_in), ex_max)
        IN  /\ Len(explained_errors) <= ex_max
            /\ Len(explained_errors) = m
            /\ \A k \in 1..m : explained_errors[k].id = ex_in[k].id

\* --- C29: the errors handed to the explanation step --------------------
\* a comes before b in the order of severity: Blunder before Mistake before
\* Inaccuracy and, within a tier, the smaller eval_change first
C29_Before(a, b) ==
    LET Tier(e) == IF e.error_type = "Blunder" THEN 1
                   ELSE IF e.error_type = "Mistake" THEN 2 ELSE 3
    IN  \/ Tier(a) < Tier(b)
        \/ Tier(a) = Tier(b) /\ a.eval_change < b.eval_change

\* the number of errors to explain: the user's number clamped to 1..n, or
\* min(15, n)
C29_K ==
    LET n == Len(all0)
    IN  IF adjust_errors = "a" /\ typed # <<>>
        THEN (IF typed[1] < 1 THEN 1 ELSE IF typed[1] > n THEN n ELSE typed[1])
        ELSE (IF n < 15 THEN n ELSE 15)

\* C29.  In the sequential run, the errors handed to the explanation step
\* are the K most severe of the aggregate list, where K = min(15, n) or the
\* user's number clamped to 1..n: the list is ordered Blunder before Mistake
\* before Inaccuracy and, within a tier, by ascending eval_change, and no
\* error left out is more severe in that order than an error selected.
C29_MostSevereK ==
    (mpc = "done" /\ adjust_errors \in {"y", "a"}) =>
        LET n == Len(all0)
            ids(s) == {s[k].id : k \in DOMAIN s}
        IN  /\ Len(all_errors) = n
            /\ {all_errors[k] : k \in 1..n} = {all0[k] : k \in 1..n}
            /\ \A j, k \in 1..n :
                  j < k => ~C29_Before(all_errors[k], all_errors[j])
            /\ Len(ex_in) = C29_K
            /\ ids(ex_in) \subseteq ids(all0)
            /\ Cardinality(ids(ex_in)) = C29_K
            /\ \A k \in 1..(Len(ex_in) - 1) :
                  ~C29_Before(ex_in[k + 1], ex_in[k])
            /\ \A o \in 1..n :
                  all0[o].id \notin ids(ex_in) =>
                      \A k \in DOMAIN ex_in : ~C29_Before(all0[o], ex_in[k])

\* more errors than the default number, of more than one tier: fifteen were
\* handed over and an error was left out
C29_Witness ==
    /\ mpc = "done"
    /\ adjust_errors = "y"
    /\ Len(all0) > 15
    /\ Len(ex_in) = 15
    /\ \E j, k \in DOMAIN all0 : all0[j].error_type # all0[k].error_type
    /\ all_errors # all0


\* --- C24: the sections of the game report ------------------------------
\* C24.  generate_game_report renders, for every blunder i (1-based) of the
\* list it is given, one section 'Blunder #i' that contains the explanation
\* belonging to that blunder; the number of blunder sections in the report
\* equals the 'Blunders Found' count of its summary, for any lengths of the
\* blunder and explanation lists.
C24_SectionPerBlunder ==
    gr_pc = "rendered" =>
        /\ Len(sections) = blunders_found
        /\ \A k \in DOMAIN blunders :
              /\ k \in DOMAIN sections
              /\ sections[k].number = k
              /\ sections[k].move_number = blunders[k].move_number
              /\ k \in DOMAIN explanations => sections[k].about = k


\* --- C30: the last n lost games ----------------------------------------
\* game a was played later than game b
C30_Later(a, b) ==
    \/ a.month > b.month
    \/ a.month = b.month /\ a.place > b.place

\* C30.  get_last_n_lost_games returns at most n games, each one a game the
\* user lost, and they are the user's n most recently played lost games: no
\* lost game that is omitted was played later than a lost game that is
\* returned, also when the most recent monthly archive alone holds more
\* than n lost games.
C30_MostRecentLosses ==
    fx_pc = "returned" =>
        LET returned == {fx_returned[k] : k \in DOMAIN fx_returned}
            played == UNION {{archives[m][j] : j \in DOMAIN archives[m]} :
                                m \in DOMAIN archives}
        IN  /\ Len(fx_returned) <= fx_n
            /\ \A g \in returned : g \in played /\ UserLost(g)
            /\ \A g \in played \ returned :
                  UserLost(g) => \A r \in returned : ~C30_Later(g, r)

====
